---------------------------- MODULE Spec2Model ----------------------------
(***************************************************************************)
(* Model of the conversational task router of Test-Repo-Orchestor.         *)
(*                                                                         *)
(* Spec       : orchestrator.py.  chat() invokes the compiled graph        *)
(*              init_pdf -> orchestrator -> {offer_agent |                 *)
(*              beneficiary_agent | finalize} -> finalize on the single    *)
(*              checkpointed thread "demo-thread"; the thread's AgentState *)
(*              is kept by the MemorySaver between calls of chat().        *)
(* SpecDirect : the node functions called directly on a caller-built       *)
(*              state: main.route_simple -> orchestrator_node, and the     *)
(*              handlers of beneficiary_agent.py and provider_agent.py.    *)
(* SpecLive   : Spec, with the graph running every node it has scheduled.  *)
(* SpecApi    : main.py's document store and its /upload and /chat         *)
(*              endpoints.                                                 *)
(*                                                                         *)
(* A Python dict is a function from its keys; an absent key is a key that  *)
(* is not in the DOMAIN.  Strings are strings: replies are built by        *)
(* concatenation as the f-strings of the code build them.                  *)
(***************************************************************************)
EXTENDS Integers, Sequences, FiniteSets, TLC

VARIABLES
  state,      \* the AgentState of thread "demo-thread" (orchestrator.py:86)
  pc,         \* graph position: "idle", a node name, or "aborted"
  now,        \* int(time.time())
  runs,       \* number of chat() calls made so far
  ret,        \* what the node that ran last returned (or the error it raised)
  calls,      \* the call_llm_json calls the node that ran last made
  pdf_text,   \* orchestrator.py's module global pdf_text (line 60)
  node,       \* the node that ran last
  prev,       \* the state that node received
  oracle,     \* what the LLM did in that node's call_llm_json call
  start,      \* the thread's state when the current chat() call was made
  trace,      \* the nodes the current chat() call has executed, in order
  dstate,     \* SpecDirect: the state a node function is called on
  dret,       \* SpecDirect: what the call returned
  dcalls,     \* SpecDirect: the call_llm_json calls the call made
  dop,        \* SpecDirect: the function called last
  DOC_STORE,  \* main.py's document store: doc_id -> entry (line 44)
  response    \* SpecApi: the last request to main.py and its response

gvars == <<state, pc, now, runs, ret, calls, pdf_text, node, prev, oracle, start,
          trace>>
dvars == <<dstate, dret, dcalls, dop, DOC_STORE, response>>
vars == <<state, pc, now, runs, ret, calls, pdf_text, node, prev, oracle, start,
          trace, dstate, dret, dcalls, dop, DOC_STORE, response>>

----------------------------------------------------------------------------
(* Bounds *)

MaxRuns == 2
MaxTime == 2
MaxMsgs == 3
MaxCand == 6
MaxDocs == 2

----------------------------------------------------------------------------
(* Python helpers *)

EmptyDict == [k \in {} |-> ""]

\* Python's None where a string is expected (str(None) is "None")
None == "<None>"

\* d.get(k, default)
Get(d, k, default) == IF k \in DOMAIN d THEN d[k] ELSE default

\* truthiness of a string-or-None value
Truthy(v) == v \notin {None, ""}

\* a or b, on string-or-None values
Or(a, b) == IF Truthy(a) THEN a ELSE b

\* truthiness of d.get(k) where the value under k is a dict or a list
TruthyAt(d, k) == k \in DOMAIN d /\ DOMAIN d[k] # {}

\* str(x) of a string-or-None value inside an f-string
Str(v) == IF v = None THEN "None" ELSE v

RECURSIVE Join(_, _)
\* sep.join(parts)
Join(parts, sep) ==
  IF parts = <<>> THEN ""
  ELSE IF Len(parts) = 1 THEN parts[1]
  ELSE parts[1] \o sep \o Join(Tail(parts), sep)

\* the outcome of a call: an exception, or a value with the outbound
\* call_llm_json calls made on the way
Raise(exc, made) == [raised |-> TRUE, exc |-> exc, calls |-> made]
Return(upd, made) == [raised |-> FALSE, update |-> upd, calls |-> made]

----------------------------------------------------------------------------
(* Inputs *)

Queries == {"A", "B"}
\* labels the classifier may answer: the three of the path map, and two
\* that are not keys of it
Labels == {"offer", "beneficiary", "finalize", "provider", ""}
Replies == {"", "ans"}
PdfTexts == {"", "DOC"}

LLMRaise == [raises |-> TRUE]
\* no LLM call was made
NoOracle == [raises |-> FALSE, text |-> None]
LLMText(t) == [raises |-> FALSE, text |-> t]
ClassifierOutcomes == {LLMRaise} \cup {LLMText(l) : l \in Labels}
OracleOutcomes == {LLMRaise} \cup {LLMText(t) : t \in Replies}

----------------------------------------------------------------------------
(* Messages and the add_messages reducer of AgentState.messages            *)

\* a turn as the code writes it: a dict with "role" and "content"
Dict(role, content) == [py |-> "dict", role |-> role, content |-> content]

\* a turn as the graph state holds it: a message object with .type,
\* .content and .id
Message(type, content, id) ==
  [py |-> "Message", type |-> type, content |-> content, id |-> id]

IsObj(m) == m.py = "Message"

MaxOf(S) == IF S = {} THEN 0 ELSE CHOOSE x \in S : \A y \in S : y <= x

Ids(msgs) == {msgs[i].id : i \in {j \in 1..Len(msgs) : IsObj(msgs[j])}}

\* convert_to_messages: a dict becomes a message object (role user/human ->
\* type "human", assistant/ai -> "ai"); an object stays what it is
ToMessage(m, id) ==
  IF IsObj(m) THEN m
  ELSE Message(IF m.role \in {"user", "human"} THEN "human" ELSE "ai",
               m.content, id)

\* the right-hand messages as objects, those without an id given a fresh one
RECURSIVE Converted(_, _)
Converted(right, next) ==
  IF right = <<>> THEN <<>>
  ELSE IF IsObj(Head(right))
       THEN <<Head(right)>> \o Converted(Tail(right), next)
       ELSE <<ToMessage(Head(right), next)>> \o Converted(Tail(right), next + 1)

\* merge by id: a message whose id is in the log replaces that entry in
\* place, any other message is appended
RECURSIVE MergeById(_, _)
MergeById(merged, right) ==
  IF right = <<>> THEN merged
  ELSE LET m == Head(right)
           at == {i \in 1..Len(merged) : merged[i].id = m.id}
       IN IF at # {}
          THEN MergeById([merged EXCEPT ![CHOOSE i \in at : TRUE] = m], Tail(right))
          ELSE MergeById(Append(merged, m), Tail(right))

\* a reducer that concatenates (operator.add) instead of merging by id
add_messages_concat(left, right) ==
  left \o Converted(right, MaxOf(Ids(left) \cup Ids(right)) + 1)

add_messages(left, right) ==
  MergeById(left, Converted(right, MaxOf(Ids(left) \cup Ids(right)) + 1))

\* a messages channel without its reducer: the last value written replaces
\* the log
ApplyWritesLastValue(st, upd) ==
  [k \in DOMAIN st \cup DOMAIN upd |->
     IF k \notin DOMAIN upd THEN st[k]
     ELSE IF k = "messages"
          THEN Converted(upd[k], MaxOf(Ids(upd[k])) + 1)
          ELSE upd[k]]

\* how the graph applies the update a node returned to the channels of the
\* state: messages through its reducer, every other key by last value
ApplyWrites(st, upd) ==
  [k \in DOMAIN st \cup DOMAIN upd |->
     IF k \notin DOMAIN upd THEN st[k]
     ELSE IF k = "messages"
          THEN add_messages(Get(st, "messages", <<>>), upd[k])
          ELSE upd[k]]

----------------------------------------------------------------------------
(* orchestrator.py: the LLM call and the nodes                             *)

ORCH_SYS == "You are an orchestrator."
OFFER_SYS == "You are Offer Agent."
BENEFICIARY_SYS == "You are Beneficiary Agent. Answer user queries using the PDF text."

\* the record of one outbound call
Call(system, user, schema) == [system |-> system, user |-> user, schema |-> schema]

\* call_llm_json of orchestrator.py: nothing is caught; with a schema the
\* reply is the schema's dict ({"route": <str>}), without one {"summary": ..}
call_llm_json(system, user, schema, llm) ==
  IF llm.raises THEN Raise("LLMError", <<Call(system, user, schema)>>)
  ELSE Return(IF schema THEN [route |-> llm.text] ELSE [summary |-> llm.text],
              <<Call(system, user, schema)>>)

\* the loop "for msg in reversed(messages): if msg.type == 'human': ..":
\* a dict has no attribute .type
RECURSIVE HumanScan(_, _)
HumanScan(msgs, i) ==
  IF i = 0 THEN [raised |-> FALSE, query |-> ""]
  ELSE IF ~IsObj(msgs[i]) THEN [raised |-> TRUE, query |-> ""]
  ELSE IF msgs[i].type = "human" THEN [raised |-> FALSE, query |-> msgs[i].content]
  ELSE HumanScan(msgs, i - 1)

init_pdf_node(st) == Return([pdf_text |-> pdf_text], <<>>)

orchestrator_node(st, llm) ==
  LET scan == HumanScan(st["messages"], Len(st["messages"]))
      payload == call_llm_json(ORCH_SYS, scan.query, TRUE, llm)
  IN IF scan.raised THEN Raise("AttributeError", <<>>)
     ELSE IF payload.raised THEN payload
     ELSE Return([route |-> Get(payload.update, "route", "finalize")], payload.calls)

\* the outcome of requests.get(api_url) + raise_for_status() + json()
ApiOutcomes == {[ok |-> FALSE, text |-> "timeout"], [ok |-> TRUE, text |-> "[]"]}

\* json.dumps({"query": user_query, "api_response": api_data})
OfferPrompt(query, api_data) ==
  "{\"query\": \"" \o query \o "\", \"api_response\": " \o api_data \o "}"

\* an offer handler that stamps the other handler's timestamp as well
offer_agent_node_stamping_all(st, api, llm, t) ==
  LET scan == HumanScan(st["messages"], Len(st["messages"]))
      summary == call_llm_json(OFFER_SYS, OfferPrompt(scan.query, api.text), FALSE, llm)
  IN IF scan.raised THEN Raise("AttributeError", <<>>)
     ELSE IF ~api.ok
          THEN Return([messages |-> <<Dict("assistant", "API error: " \o api.text)>>], <<>>)
     ELSE IF summary.raised THEN summary
     ELSE Return([offer_summary |-> summary.update,
                  offer_last_updated |-> t,
                  beneficiary_last_updated |-> t,
                  messages |-> <<Dict("assistant", "Offer Agent processed API data.")>>],
                 summary.calls)

offer_agent_node(st, api, llm, t) ==
  LET scan == HumanScan(st["messages"], Len(st["messages"]))
      summary == call_llm_json(OFFER_SYS, OfferPrompt(scan.query, api.text), FALSE, llm)
  IN IF scan.raised THEN Raise("AttributeError", <<>>)
     ELSE IF ~api.ok
          THEN Return([messages |-> <<Dict("assistant", "API error: " \o api.text)>>], <<>>)
     ELSE IF summary.raised THEN summary
     ELSE Return([offer_summary |-> summary.update,
                  offer_last_updated |-> t,
                  messages |-> <<Dict("assistant", "Offer Agent processed API data.")>>],
                 summary.calls)

NO_PDF_MARKER == [error |-> "No PDF data available"]

\* f"PDF: {pdf_text}\n\nUser Question: {user_query}"
BeneficiaryPrompt(pdf, query) ==
  "PDF: " \o pdf \o "\n\nUser Question: " \o Str(query)

\* beneficiary_agent_node of orchestrator.py (the node the graph runs)
beneficiary_agent_node(st, llm, t) ==
  LET pdf == Get(st, "pdf_text", "")
      scan == HumanScan(st["messages"], Len(st["messages"]))
      answer == call_llm_json(BENEFICIARY_SYS, BeneficiaryPrompt(pdf, scan.query), FALSE, llm)
  IN IF st["messages"] = <<>> THEN Raise("IndexError", <<>>)
     ELSE IF scan.raised THEN Raise("AttributeError", <<>>)
     ELSE IF ~Truthy(pdf)
          THEN Return([beneficiary_answer |-> NO_PDF_MARKER,
                       beneficiary_last_updated |-> t], <<>>)
     ELSE IF answer.raised THEN answer
     ELSE Return([beneficiary_answer |-> answer.update,
                  beneficiary_last_updated |-> t], answer.calls)

\* the emoji that open the two headings are written as ASCII tags
OFFER_HEADING == "[doc] Offer Summary:\n"
BENEFICIARY_HEADING == "[user] Beneficiary Info:\n"
APOLOGY == "I couldn't extract relevant details. Please try refining your query."

\* the order in which the keys of a dict were inserted
KeyOrder == <<"summary", "content", "text", "answer", "error">>

\* the items of str(d), in insertion order
RECURSIVE Items(_, _)
Items(d, i) ==
  IF i > Len(KeyOrder) THEN <<>>
  ELSE (IF KeyOrder[i] \in DOMAIN d
          THEN <<"'" \o KeyOrder[i] \o "': '" \o d[KeyOrder[i]] \o "'">>
          ELSE <<>>) \o Items(d, i + 1)

\* str(content) of a dict of strings
DictStr(d) == "{" \o Join(Items(d, 1), ", ") \o "}"

\* a comparison that gives ties to the offer slot
last_agent_output_ties_to_offer(st) ==
  LET offer_time == Get(st, "offer_last_updated", 0)
      beneficiary_time == Get(st, "beneficiary_last_updated", 0)
  IN IF beneficiary_time > offer_time /\ TruthyAt(st, "beneficiary_answer")
       THEN "beneficiary"
     ELSE IF offer_time >= beneficiary_time /\ TruthyAt(st, "offer_summary")
       THEN "offer"
     ELSE "none"

\* which slot finalize_node reads: the timestamp comparison of lines 185-191
last_agent_output(st) ==
  LET offer_time == Get(st, "offer_last_updated", 0)
      beneficiary_time == Get(st, "beneficiary_last_updated", 0)
  IN IF beneficiary_time >= offer_time /\ TruthyAt(st, "beneficiary_answer")
       THEN "beneficiary"
     ELSE IF offer_time > beneficiary_time /\ TruthyAt(st, "offer_summary")
       THEN "offer"
     ELSE "none"

\* the reply of finalize_node, lines 193-206
reply(st) ==
  LET agent_type == last_agent_output(st)
  IN IF agent_type = "offer"
       THEN OFFER_HEADING \o Str(Get(st["offer_summary"], "summary", None))
     ELSE IF agent_type = "beneficiary"
       THEN BENEFICIARY_HEADING
              \o Or(Or(Get(st["beneficiary_answer"], "summary", None),
                       Get(st["beneficiary_answer"], "error", None)),
                    DictStr(st["beneficiary_answer"]))
     ELSE APOLOGY

finalize_node(st) ==
  Return([messages |-> Get(st, "messages", <<>>) \o <<Dict("assistant", reply(st))>>,
          final_answer |-> reply(st)], <<>>)

\* the path map of add_conditional_edges (line 230)
PathMap == [offer |-> "offer_agent", beneficiary |-> "beneficiary_agent",
            finalize |-> "finalize"]

----------------------------------------------------------------------------
(* utility.py, llm_utils.py, beneficiary_agent.py, provider_agent.py       *)

\* _extract_content: msg.content or "" (object), msg.get("content", "") or ""
_extract_content(msg) == Or(Get(msg, "content", ""), "")

\* the role get_last_human_message reads: .type of an object, else
\* msg.get("role") or msg.get("type") of a dict
RoleOf(msg) ==
  IF IsObj(msg) THEN msg.type
  ELSE Or(Get(msg, "role", None), Get(msg, "type", None))

HumanRoles == {"user", "human", "humanmessage"}

\* role.lower() for the roles the model holds
Lower(r) ==
  IF r \in {"User", "USER"} THEN "user"
  ELSE IF r \in {"Human", "HUMAN"} THEN "human"
  ELSE r

RECURSIVE LastHumanFrom(_, _)
LastHumanFrom(msgs, i) ==
  IF i = 0 THEN None
  ELSE IF Lower(RoleOf(msgs[i])) \in HumanRoles THEN _extract_content(msgs[i])
  ELSE LastHumanFrom(msgs, i - 1)

\* a scan from the front of the log: the first user turn, not the last
get_first_human_message(st) ==
  LET msgs == Get(st, "messages", <<>>)
      humans == {i \in 1..Len(msgs) : Lower(RoleOf(msgs[i])) \in HumanRoles}
  IN IF humans = {} THEN None
     ELSE _extract_content(msgs[CHOOSE i \in humans : \A j \in humans : i <= j])

get_last_human_message(st) ==
  LET msgs == Get(st, "messages", <<>>)
  IN LastHumanFrom(msgs, Len(msgs))

\* what the model behind llm_utils.call_llm_json does: there is none
\* (llm is None), or invoke raises, or it replies with a text
NoLLM == [raises |-> FALSE, configured |-> FALSE]
LLMFail == [raises |-> TRUE, configured |-> TRUE, text |-> "boom"]
LLMReply(t) == [raises |-> FALSE, configured |-> TRUE, text |-> t]
UtilsOutcomes == {NoLLM, LLMFail} \cup {LLMReply(t) : t \in Replies}

FALLBACK_CHARS == 1000

\* s[:n]
Truncate(s, n) == IF Len(s) <= n THEN s ELSE SubSeq(s, 1, n)

\* call_llm_json of llm_utils.py, without a schema: every failure is caught
llm_utils_call_llm_json(system, user, llm) ==
  IF ~llm.configured
    THEN [summary |-> "[no-llm-fallback] " \o Truncate(user, FALLBACK_CHARS)]
  ELSE IF llm.raises THEN [summary |-> "[LLM error] " \o llm.text]
  ELSE [summary |-> llm.text]

\* the shapes of a reply: None, a dict of strings, an object with a
\* .content attribute (a string or None), any other value (a str)
RespNone == [py |-> "None"]
RespDict(d) == [py |-> "dict", value |-> d]
RespObject(content) == [py |-> "object", content |-> content]
RespOther(text) == [py |-> "str", value |-> text]

\* an extraction that tries "content" before "summary"
extract_text_content_first(resp) ==
  IF resp.py = "None" THEN ""
  ELSE IF resp.py = "dict"
    THEN LET d == resp.value
         IN IF Truthy(Get(d, "content", None)) THEN d.content
            ELSE IF Truthy(Get(d, "summary", None)) THEN d.summary
            ELSE IF Truthy(Get(d, "text", None)) THEN d.text
            ELSE IF Truthy(Get(d, "answer", None)) THEN d.answer
            ELSE DictStr(d)
  ELSE IF resp.py = "object" THEN Or(resp.content, "")
  ELSE resp.value

_extract_text_from_llm_response(resp) ==
  IF resp.py = "None" THEN ""
  ELSE IF resp.py = "dict"
    THEN LET d == resp.value
         IN IF Truthy(Get(d, "summary", None)) THEN d.summary
            ELSE IF Truthy(Get(d, "content", None)) THEN d.content
            ELSE IF Truthy(Get(d, "text", None)) THEN d.text
            ELSE IF Truthy(Get(d, "answer", None)) THEN d.answer
            ELSE DictStr(d)
  ELSE IF resp.py = "object" THEN Or(resp.content, "")
  ELSE resp.value

NO_PDF_ANSWER == "No PDF data available to answer the question."
NO_ANSWER == "No answer produced."

\* a dict turn carrying the handler's tags
Tagged(content, agent, key) ==
  [py |-> "dict", role |-> "assistant", content |-> content,
   agent |-> agent, response_key |-> key]

\* beneficiary_agent_node of beneficiary_agent.py
agents_beneficiary_agent_node(st, llm, t) ==
  LET pdf == Or(Get(st, "pdf_text", ""), "")
      user_query == get_last_human_message(st)
      prompt == BeneficiaryPrompt(pdf, user_query)
      answer == IF ~Truthy(pdf) THEN NO_PDF_MARKER
                ELSE llm_utils_call_llm_json(BENEFICIARY_SYS, prompt, llm)
      final_answer == IF ~Truthy(pdf) THEN NO_PDF_ANSWER
                      ELSE Or(_extract_text_from_llm_response(RespDict(answer)), NO_ANSWER)
  IN Return([beneficiary_answer |-> answer,
             beneficiary_last_updated |-> t,
             final_answer |-> final_answer,
             messages |-> <<Tagged(final_answer, "beneficiary", "beneficiary_answer")>>],
            IF ~Truthy(pdf) THEN <<>> ELSE <<Call(BENEFICIARY_SYS, prompt, FALSE)>>)

TOP_N == 5
N_PROVIDERS == 6

\* one entry of name_parts
NamePart(p) ==
  LET name == Get(p, "name", "Unknown")
      spec == Get(p, "specialty", None)
  IN IF Truthy(spec) THEN name \o " (" \o spec \o ")" ELSE name

\* candidates[:n]
Take(s, n) == SubSeq(s, 1, IF Len(s) < n THEN Len(s) ELSE n)

\* the count suffix taken with >= in place of >: "and 0 more" at five
make_final_answer_suffix_ge(candidates) ==
  IF candidates = <<>> THEN "No providers found."
  ELSE LET count == Len(candidates)
           top == Take(candidates, TOP_N)
           names_summary == Join([i \in 1..Len(top) |-> NamePart(top[i])], ", ")
           more == IF count >= TOP_N
                     THEN " and " \o ToString(count - Len(top)) \o " more"
                     ELSE ""
       IN "Found " \o ToString(count) \o " providers: " \o names_summary \o more \o "."

_make_final_answer_from_providers(candidates) ==
  IF candidates = <<>> THEN "No providers found."
  ELSE LET count == Len(candidates)
           top == Take(candidates, TOP_N)
           names_summary == Join([i \in 1..Len(top) |-> NamePart(top[i])], ", ")
           more == IF count > Len(top)
                     THEN " and " \o ToString(count - Len(top)) \o " more"
                     ELSE ""
       IN "Found " \o ToString(count) \o " providers: " \o names_summary \o more \o "."

\* the record of the generate_providers call
Generate(n, seed_text) == [fn |-> "generate_providers", n |-> n, seed_text |-> seed_text]

\* provider_agent_node; gen is what generate_providers(n=6, ..) did: it
\* raised, or it returned its list
provider_agent_node(st, gen, t) ==
  LET user_query == get_last_human_message(st)
      made == <<Generate(N_PROVIDERS, Or(user_query, ""))>>
      err_msg == "Provider generation failed: " \o gen.text
      final_answer == _make_final_answer_from_providers(gen.candidates)
  IN IF gen.raises
       THEN Return([messages |-> <<Tagged(err_msg, "provider", "provider_candidates")>>,
                    final_answer |-> err_msg], made)
       ELSE Return([provider_candidates |-> gen.candidates,
                    provider_last_updated |-> t,
                    final_answer |-> final_answer,
                    messages |-> <<Tagged(final_answer, "provider", "provider_candidates")>>],
                   made)

\* the reply chat_endpoint projects from the result of a run: the content
\* of the last turn of its log, "" on an empty log
final_reply(result) ==
  LET messages == Get(result, "messages", <<>>)
  IN IF messages = <<>> THEN "" ELSE Get(messages[Len(messages)], "content", "")

MAX_PROMPT_CHARS == 28000

\* the default PDF at PDF_PATH: no file, or a file and the text extracted
\* from it ("" when the extraction fails)
DefaultPdfs == {[exists |-> FALSE], [exists |-> TRUE, text |-> ""],
                [exists |-> TRUE, text |-> "DEFAULT"]}

\* init_pdf_node of init_pdf.py
init_pdf_init_pdf_node(st, default) ==
  LET incoming_text == Get(st, "pdf_text", None)
  IN IF Truthy(incoming_text) THEN Return([pdf_text |-> st["pdf_text"]], <<>>)
     ELSE IF default.exists
          THEN Return([pdf_text |-> Truncate(default.text, MAX_PROMPT_CHARS)], <<>>)
     ELSE Return(EmptyDict, <<>>)

\* route_simple of main.py: orchestrator_node on {"messages": messages},
\* any exception answered with "finalize"
route_simple(messages, llm) ==
  LET orch_res == orchestrator_node([messages |-> messages], llm)
  IN IF orch_res.raised THEN [route |-> "finalize", calls |-> orch_res.calls]
     ELSE [route |-> Get(orch_res.update, "route", "finalize"), calls |-> orch_res.calls]

----------------------------------------------------------------------------
(* The graph run of chat() on thread "demo-thread"                         *)

Idle == pc \in {"idle", "aborted"}

\* chat(query, history): graph.invoke(AgentState(messages=[user turn]))
\* on the checkpointed thread; the input is written through the reducers
Chat(query) ==
  /\ Idle
  /\ runs < MaxRuns
  /\ state' = ApplyWrites(state, [messages |-> <<Dict("user", query)>>])
  /\ pc' = "init_pdf"
  /\ runs' = runs + 1
  /\ ret' = EmptyDict
  /\ calls' = <<>>
  /\ node' = "START"
  /\ prev' = state
  /\ oracle' = NoOracle
  /\ start' = state
  /\ trace' = <<>>
  /\ UNCHANGED <<now, pdf_text>>

\* a node that returned: its update is written and the run moves on;
\* a node that raised: graph.invoke raises, the update is lost
Step(res, next, llm) ==
  /\ ret' = res
  /\ calls' = res.calls
  /\ node' = pc
  /\ prev' = state
  /\ oracle' = IF res.calls = <<>> THEN NoOracle ELSE llm
  /\ trace' = Append(trace, pc)
  /\ IF res.raised
       THEN /\ pc' = "aborted"
            /\ state' = state
       ELSE /\ pc' = next
            /\ state' = ApplyWrites(state, res.update)
  /\ UNCHANGED <<now, runs, pdf_text, start>>

InitPdf ==
  /\ pc = "init_pdf"
  /\ Step(init_pdf_node(state), "orchestrator", NoOracle)

\* the node and its conditional edge: a route that is no key of the path
\* map is a KeyError of the branch, inside the node's task
Orchestrator(llm) ==
  /\ pc = "orchestrator"
  /\ LET res == orchestrator_node(state, llm)
     IN IF res.raised THEN Step(res, "aborted", llm)
        ELSE IF res.update.route \notin DOMAIN PathMap
             THEN Step(Raise("KeyError", res.calls), "aborted", llm)
        ELSE Step(res, PathMap[res.update.route], llm)

OfferAgent(api, llm) ==
  /\ pc = "offer_agent"
  /\ Step(offer_agent_node(state, api, llm, now), "finalize", llm)

BeneficiaryAgent(llm) ==
  /\ pc = "beneficiary_agent"
  /\ Step(beneficiary_agent_node(state, llm, now), "finalize", llm)

Finalize ==
  /\ pc = "finalize"
  /\ Step(finalize_node(state), "idle", NoOracle)

\* the wall clock moves on
Tick ==
  /\ now < MaxTime
  /\ now' = now + 1
  /\ UNCHANGED <<state, pc, runs, ret, calls, pdf_text, node, prev, oracle, start,
                 trace>>

Init ==
  /\ state = EmptyDict
  /\ pc = "idle"
  /\ now = 1
  /\ runs = 0
  /\ ret = EmptyDict
  /\ calls = <<>>
  /\ pdf_text \in PdfTexts
  /\ node = "none"
  /\ prev = EmptyDict
  /\ oracle = NoOracle
  /\ start = EmptyDict
  /\ trace = <<>>
  /\ dstate = EmptyDict
  /\ dret = EmptyDict
  /\ dcalls = <<>>
  /\ dop = "none"
  /\ DOC_STORE = EmptyDict
  /\ response = [op |-> "none"]

Next ==
  \/ \E q \in Queries : Chat(q) /\ UNCHANGED dvars
  \/ InitPdf /\ UNCHANGED dvars
  \/ \E llm \in ClassifierOutcomes : Orchestrator(llm) /\ UNCHANGED dvars
  \/ \E api \in ApiOutcomes, llm \in OracleOutcomes : OfferAgent(api, llm) /\ UNCHANGED dvars
  \/ \E llm \in OracleOutcomes : BeneficiaryAgent(llm) /\ UNCHANGED dvars
  \/ Finalize /\ UNCHANGED dvars
  \/ Tick /\ UNCHANGED dvars

Spec == Init /\ [][Next]_vars

\* a node of the graph runs
RunStep ==
  \/ InitPdf
  \/ \E llm \in ClassifierOutcomes : Orchestrator(llm)
  \/ \E api \in ApiOutcomes, llm \in OracleOutcomes : OfferAgent(api, llm)
  \/ \E llm \in OracleOutcomes : BeneficiaryAgent(llm)
  \/ Finalize

\* graph.invoke runs the node it has scheduled: a run does not stop halfway
SpecLive == Spec /\ WF_vars(RunStep /\ UNCHANGED dvars)

----------------------------------------------------------------------------
(* The node functions called directly on a caller-built state              *)

DictTurns == {Dict("user", "A"), Dict("user", "B"), Dict("assistant", "X")}
ObjTurns == {Message("human", "A", 0), Message("human", "B", 0), Message("ai", "X", 0)}

\* the logs of at most n turns over a set of turns
Logs(turns, n) == UNION {[1..k -> turns] : k \in 0..n}

\* a caller-built state: a log, with or without a document context
States(turns) ==
  {[messages |-> m] : m \in Logs(turns, MaxMsgs)}
    \cup {[messages |-> m, pdf_text |-> p] : m \in Logs(turns, MaxMsgs), p \in PdfTexts}

\* candidate records: complete, without a specialty, without a name
Candidates == {[name |-> "Asha", specialty |-> "ENT"], [name |-> "Ravi"],
               [specialty |-> "ENT"]}
\* the records generate_providers builds have both fields
Generated == {[name |-> "Asha", specialty |-> "ENT"], [name |-> "Ravi", specialty |-> "Cardiology"]}

GenOutcomes ==
  {[raises |-> TRUE, text |-> "boom"]}
    \cup {[raises |-> FALSE, candidates |-> [i \in 1..N_PROVIDERS |-> IF i <= k THEN g ELSE h]] :
             k \in 0..N_PROVIDERS, g \in Generated, h \in Generated}

Called(op, st, res, made) ==
  /\ dop = "none"
  /\ dop' = op
  /\ dstate' = st
  /\ dret' = res
  /\ dcalls' = made
  /\ UNCHANGED <<gvars, DOC_STORE, response>>

\* POST /route_simple: the request's messages are dicts
RouteSimple(messages, llm) ==
  LET res == route_simple(messages, llm)
  IN Called("route_simple", [messages |-> messages], [route |-> res.route], res.calls)

OrchestratorNodeCall(st, llm) ==
  LET res == orchestrator_node(st, llm)
  IN Called("orchestrator_node", st, res, res.calls)

BeneficiaryAgentCall(st, llm) ==
  LET res == agents_beneficiary_agent_node(st, llm, now)
  IN Called("beneficiary_agent_node", st, res, res.calls)

ProviderAgentCall(st, gen) ==
  LET res == provider_agent_node(st, gen, now)
  IN Called("provider_agent_node", st, res, res.calls)

MakeFinalAnswer(candidates) ==
  Called("_make_final_answer_from_providers", [candidates |-> candidates],
         [text |-> _make_final_answer_from_providers(candidates)], <<>>)

\* the extraction on a reply, and the final_answer line 58 makes of it
ExtractCall(resp) ==
  LET text == _extract_text_from_llm_response(resp)
  IN Called("_extract_text_from_llm_response", [resp |-> resp],
            [text |-> text, final_answer |-> Or(text, NO_ANSWER)], <<>>)

\* finalize_node on a state
FinalizeCall(st) ==
  LET res == finalize_node(st)
  IN Called("finalize_node", st, res, res.calls)

\* the init step on the state a run is seeded with
InitPdfCall(st, default) ==
  Called("init_pdf_node", st, init_pdf_init_pdf_node(st, default), <<>>)

\* the init step of orchestrator.py on such a state
OrchestratorInitPdfCall(st) ==
  Called("orchestrator.init_pdf_node", st, init_pdf_node(st), <<>>)

\* the call is over; the caller may make another
DirectReturn ==
  /\ dop # "none"
  /\ dop' = "none"
  /\ dstate' = EmptyDict
  /\ dret' = EmptyDict
  /\ dcalls' = <<>>
  /\ UNCHANGED <<gvars, DOC_STORE, response>>

\* the states and candidate lists the calls are made on
DirectStates == States(DictTurns \cup ObjTurns)
DictLogs == Logs(DictTurns, MaxMsgs)
ObjLogs == Logs(ObjTurns, MaxMsgs)
CandidateLists == Logs(Candidates, MaxCand)
\* replies: None, the dicts over the four textual keys with empty and
\* non-empty values, objects with a content, plain strings
ReplyDicts == UNION {[K -> {"", "p", "q"}] : K \in SUBSET {"summary", "content", "text", "answer"}}
ExtractInputs ==
  {RespNone} \cup {RespDict(d) : d \in ReplyDicts}
    \cup {RespObject(c) : c \in {None, "", "p"}} \cup {RespOther(t) : t \in {"", "p"}}
\* the states finalize_node may be given: each slot absent, empty or
\* populated, each timestamp absent or a clock value
SlotStates(key, values) == {EmptyDict} \cup {[k \in {key} |-> v] : v \in values}
Merged(a, b) == [k \in DOMAIN a \cup DOMAIN b |-> IF k \in DOMAIN a THEN a[k] ELSE b[k]]
FinalizeStates ==
  {Merged(Merged(o, ot), Merged(Merged(b, bt), [messages |-> <<Message("human", "A", 1)>>])) :
     o \in SlotStates("offer_summary", {EmptyDict, [summary |-> "s"]}),
     ot \in SlotStates("offer_last_updated", 1..MaxTime),
     b \in SlotStates("beneficiary_answer",
                      {EmptyDict, [summary |-> "b"], NO_PDF_MARKER}),
     bt \in SlotStates("beneficiary_last_updated", 1..MaxTime)}
\* a run's seed: the user turn, and the document text when one is referenced
\* (chat_endpoint: None without a doc_id, else the stored text, "" included)
SeedStates ==
  {[messages |-> <<Dict("user", q)>>] : q \in Queries}
    \cup {[messages |-> <<Dict("user", q)>>, pdf_text |-> p] :
             q \in Queries, p \in PdfTexts \cup {None}}

NextDirect ==
  \/ dop = "none" /\ \E m \in DictLogs, llm \in ClassifierOutcomes : RouteSimple(m, llm)
  \/ dop = "none" /\ \E m \in ObjLogs, llm \in ClassifierOutcomes :
        OrchestratorNodeCall([messages |-> m], llm)
  \/ dop = "none" /\ \E st \in DirectStates, llm \in UtilsOutcomes :
        BeneficiaryAgentCall(st, llm)
  \/ dop = "none" /\ \E st \in DirectStates, gen \in GenOutcomes : ProviderAgentCall(st, gen)
  \/ dop = "none" /\ \E c \in CandidateLists : MakeFinalAnswer(c)
  \/ dop = "none" /\ \E st \in SeedStates, d \in DefaultPdfs : InitPdfCall(st, d)
  \/ dop = "none" /\ \E st \in SeedStates : OrchestratorInitPdfCall(st)
  \/ dop = "none" /\ \E resp \in ExtractInputs : ExtractCall(resp)
  \/ dop = "none" /\ \E st \in FinalizeStates : FinalizeCall(st)
  \/ DirectReturn

SpecDirect == Init /\ [][NextDirect]_vars

----------------------------------------------------------------------------
(* main.py: the document store and the /upload and /chat endpoints         *)

\* s.strip(), for the blanks the model holds
RECURSIVE LStrip(_)
LStrip(s) ==
  IF Len(s) > 0 /\ SubSeq(s, 1, 1) = " " THEN LStrip(SubSeq(s, 2, Len(s))) ELSE s
RECURSIVE RStrip(_)
RStrip(s) ==
  IF Len(s) > 0 /\ SubSeq(s, Len(s), Len(s)) = " "
    THEN RStrip(SubSeq(s, 1, Len(s) - 1)) ELSE s
Strip(s) == RStrip(LStrip(s))

\* str(uuid.uuid4()): an id no earlier upload was given
NewDocId(store) == "doc-" \o ToString(Cardinality(DOMAIN store) + 1)

\* extract_text_from_pdf_bytes: it raises, or gives the text and the pages
Extractions == {[ok |-> FALSE], [ok |-> TRUE, text |-> "DOC", pages |-> 1],
                [ok |-> TRUE, text |-> "", pages |-> 1]}

\* upload_pdf: the response, and the store it leaves
upload_pdf(store, content_type, extraction) ==
  LET doc_id == NewDocId(store)
      entry == [name |-> "file.pdf",
                pages |-> IF extraction.ok THEN extraction.pages ELSE 0,
                text |-> IF extraction.ok THEN extraction.text ELSE "",
                file_path |-> doc_id \o ".pdf"]
  IN IF content_type # "application/pdf"
       THEN [status |-> 400, detail |-> "Only PDF files are accepted.", store |-> store]
       ELSE [status |-> 200, doc_id |-> doc_id,
             store |-> [d \in DOMAIN store \cup {doc_id} |->
                          IF d = doc_id THEN entry ELSE store[d]]]

\* run_orchestrator(messages, doc_text): the Run Controller.  It seeds the
\* run with the turns and the document context, never raises, and returns
\* the final state, whose last turn carries final_answer
run_orchestrator(messages, doc_text) ==
  [raised |-> FALSE,
   result |-> [messages |-> messages \o <<Dict("assistant", "reply")>>,
               final_answer |-> "reply",
               pdf_text |-> doc_text]]

\* a chat_endpoint that takes a document without text for one not found
chat_endpoint_requiring_text(store, message, doc_id) ==
  LET user_msg == Dict("user", message)
      known == Truthy(doc_id) /\ doc_id \in DOMAIN store /\ store[doc_id].text # ""
      doc_text == IF Truthy(doc_id) /\ known THEN store[doc_id].text ELSE None
      run == run_orchestrator(<<user_msg>>, doc_text)
  IN IF ~Truthy(message) \/ Strip(message) = ""
       THEN [status |-> 400, detail |-> "message must be provided", started |-> FALSE]
     ELSE IF Truthy(doc_id) /\ ~known
       THEN [status |-> 404, detail |-> "Document id not found", started |-> FALSE]
     ELSE IF run.raised
       THEN [status |-> 500, detail |-> "error", started |-> TRUE]
     ELSE [status |-> 200, reply |-> final_reply(run.result), state |-> run.result,
           started |-> TRUE]

\* chat_endpoint: the response, and whether the run was started
chat_endpoint(store, message, doc_id) ==
  LET user_msg == Dict("user", message)
      known == Truthy(doc_id) /\ doc_id \in DOMAIN store
      doc_text == IF Truthy(doc_id) /\ known THEN store[doc_id].text ELSE None
      run == run_orchestrator(<<user_msg>>, doc_text)
  IN IF ~Truthy(message) \/ Strip(message) = ""
       THEN [status |-> 400, detail |-> "message must be provided", started |-> FALSE]
     ELSE IF Truthy(doc_id) /\ ~known
       THEN [status |-> 404, detail |-> "Document id not found", started |-> FALSE]
     ELSE IF run.raised
       THEN [status |-> 500, detail |-> "error", started |-> TRUE]
     ELSE [status |-> 200, reply |-> final_reply(run.result), state |-> run.result,
           started |-> TRUE]

ContentTypes == {"application/pdf", "text/plain"}
Messages == {"", " ", "A", " A "}
\* the doc_id of a request: none, empty, unknown, or one an upload returned
DocIds(store) == {None, "", "doc-0"} \cup DOMAIN store

\* POST /upload
Upload(content_type, extraction) ==
  /\ Cardinality(DOMAIN DOC_STORE) < MaxDocs
  /\ LET res == upload_pdf(DOC_STORE, content_type, extraction)
     IN /\ DOC_STORE' = res.store
        /\ response' = [op |-> "upload", status |-> res.status,
                        doc_id |-> Get(res, "doc_id", None), before |-> DOC_STORE]
  /\ UNCHANGED <<gvars, dstate, dret, dcalls, dop>>

\* POST /chat
ChatEndpoint(message, doc_id) ==
  /\ LET res == chat_endpoint(DOC_STORE, message, doc_id)
     IN response' = [op |-> "chat", message |-> message, doc_id |-> doc_id,
                     status |-> res.status, started |-> res.started,
                     reply |-> Get(res, "reply", None), before |-> DOC_STORE]
  /\ UNCHANGED <<gvars, dstate, dret, dcalls, dop, DOC_STORE>>

NextApi ==
  \/ \E c \in ContentTypes, x \in Extractions : Upload(c, x)
  \/ \E m \in Messages, d \in DocIds(DOC_STORE) : ChatEndpoint(m, d)

SpecApi == Init /\ [][NextApi]_vars

----------------------------------------------------------------------------
(* Reading a state *)

Log(st) == Get(st, "messages", <<>>)

\* the turns of a log with a given .type
TurnsOf(msgs, type) == {i \in 1..Len(msgs) : IsObj(msgs[i]) /\ msgs[i].type = type}

\* the handler result slots of AgentState and their timestamps
SlotKeys == {"offer_summary", "offer_last_updated",
             "beneficiary_answer", "beneficiary_last_updated"}

\* the part of a state that lies under a set of keys
Under(st, keys) == [k \in DOMAIN st \cap keys |-> st[k]]

\* the classifier failed, or answered a label that is no key of the path map
BadClassification ==
  /\ node = "orchestrator"
  /\ calls # <<>>
  /\ (oracle.raises \/ oracle.text \notin DOMAIN PathMap)

\* a chat() call has returned
RunCompleted == pc = "idle" /\ runs > 0

----------------------------------------------------------------------------
(* Claims *)

\* C1 (Totality): every run of the graph completes -- no classifier or
\* handler outcome aborts it -- and when it has completed final_answer is
\* a non-empty string and the log holds at least one assistant turn.
C1_Totality ==
  /\ pc # "aborted"
  /\ RunCompleted =>
       /\ "final_answer" \in DOMAIN state
       /\ state["final_answer"] \notin {None, ""}
       /\ TurnsOf(Log(state), "ai") # {}

\* C2 (Fallback on bad classification): when the classifier call of
\* orchestrator_node raises or answers a label outside the label set, the
\* run is not aborted, route is "finalize", and no handler result slot or
\* timestamp has been written in the run.
C2_FallbackOnBadClassification ==
  BadClassification =>
    /\ pc # "aborted"
    /\ Get(state, "route", None) = "finalize"
    /\ Under(state, SlotKeys) = Under(start, SlotKeys)

\* a user turn: a dict with role "user", or a message object of type "human"
IsUserTurn(m) == IF IsObj(m) THEN m.type = "human" ELSE m.role = "user"

UserTurns(msgs) == {i \in 1..Len(msgs) : IsUserTurn(msgs[i])}

\* the text of the user turn with the greatest index
LastUserText(msgs) == msgs[MaxOf(UserTurns(msgs))].content

\* the text of the assistant turn with the greatest index
LastAssistantText(msgs) == msgs[MaxOf(TurnsOf(msgs, "ai"))].content

Last(msgs) == msgs[Len(msgs)]

\* the route a direct call of the router answered (None: it raised)
DirectRoute ==
  IF dop = "route_simple" THEN dret.route
  ELSE IF dret.raised THEN None
  ELSE dret.update.route

\* C3 (no user turn): when the log given to the router holds no user turn,
\* the route is "finalize" whatever the classifier answers.
C3_NoUserTurnFinalize ==
  (dop \in {"route_simple", "orchestrator_node"} /\ UserTurns(Log(dstate)) = {})
    => DirectRoute = "finalize"

\* C4 (Last-turn precedence): on a log with a user turn, the query the
\* classification and the handlers use is the text of the user turn with
\* the greatest index.
C4_LastTurnPrecedence ==
  UserTurns(Log(dstate)) # {} =>
    LET q == LastUserText(Log(dstate))
        pdf == Or(Get(dstate, "pdf_text", ""), "")
    IN /\ dop = "orchestrator_node" => dcalls = <<Call(ORCH_SYS, q, TRUE)>>
       /\ dop = "beneficiary_agent_node" =>
            dcalls \in {<<>>, <<Call(BENEFICIARY_SYS, BeneficiaryPrompt(pdf, q), FALSE)>>}
       /\ dop = "provider_agent_node" => dcalls = <<Generate(N_PROVIDERS, q)>>

\* C4 witness: a handler has asked the oracle on a log whose earlier user
\* turn differs from its last one, an assistant turn lying between them
C4_Witness ==
  /\ dop = "beneficiary_agent_node"
  /\ dcalls # <<>>
  /\ \E i, j, k \in 1..Len(Log(dstate)) :
        /\ i < k /\ k < j
        /\ UserTurns(Log(dstate)) = {i, j}
        /\ Log(dstate)[i].content # Log(dstate)[j].content

\* C5 (Finalizer rule a): when the state the Finalizer receives holds a
\* final_answer, the final_answer it produces and the turn it appends are
\* that string.
C5_FinalizerVerbatim ==
  (node = "finalize" /\ "final_answer" \in DOMAIN prev) =>
    /\ state["final_answer"] = prev["final_answer"]
    /\ Last(Log(state)).content = prev["final_answer"]

\* C6 (Finalizer rules b, c): when the state the Finalizer receives holds no
\* final_answer, the text is that of the most recent assistant turn if
\* there is one, and the apology exactly when there is none.
C6_FinalizerFallback ==
  (node = "finalize" /\ "final_answer" \notin DOMAIN prev) =>
    /\ TurnsOf(Log(prev), "ai") # {} =>
         state["final_answer"] = LastAssistantText(Log(prev))
    /\ TurnsOf(Log(prev), "ai") = {} <=> state["final_answer"] = APOLOGY

\* the state after the Finalizer has been applied to st
Finalized(st) == ApplyWrites(st, finalize_node(st).update)

\* the log of t is the log of st and one more assistant turn, of text txt
OneMoreTurn(st, t, txt) ==
  /\ Len(Log(t)) = Len(Log(st)) + 1
  /\ SubSeq(Log(t), 1, Len(Log(st))) = Log(st)
  /\ Last(Log(t)).type = "ai"
  /\ Last(Log(t)).content = txt

\* C7 (Idempotent finalize): the Finalizer applied to a reachable state and
\* again to the result gives the same final_answer both times, and each
\* application grows the log by exactly one assistant turn of that text.
C7_IdempotentFinalize ==
  LET s1 == Finalized(state)
      s2 == Finalized(s1)
  IN /\ s2["final_answer"] = s1["final_answer"]
     /\ OneMoreTurn(state, s1, s1["final_answer"])
     /\ OneMoreTurn(s1, s2, s1["final_answer"])

\* C7 witness: the Finalizer has run a second time on the thread, after a
\* run that left a handler result, and has answered as it did before
C7_Witness ==
  /\ RunCompleted
  /\ runs = 2
  /\ last_agent_output(start) # "none"
  /\ state["route"] = "finalize"
  /\ state["final_answer"] = start["final_answer"]
  /\ Len(Log(state)) = Len(Log(start)) + 2

\* what a handler's return value must hold: a final_answer, and exactly one
\* assistant turn of that text tagged with the handler and its result slot
HandlerContract(upd, agent, key) ==
  /\ "final_answer" \in DOMAIN upd
  /\ "messages" \in DOMAIN upd
  /\ Len(upd["messages"]) = 1
  /\ upd["messages"][1].role = "assistant"
  /\ upd["messages"][1].content = upd["final_answer"]
  /\ Get(upd["messages"][1], "agent", None) = agent
  /\ Get(upd["messages"][1], "response_key", None) = key

\* C8 (Handler output contract): every invocation of a handler node, on
\* its success and its failure path, returns a final_answer and exactly one
\* new assistant turn of that text, tagged with the handler's identity and
\* the name of its result slot.  Stated of the Document-QA node of the graph.
C8_HandlerOutputContract ==
  node = "beneficiary_agent" =>
    /\ ~ret.raised
    /\ HandlerContract(ret.update, "beneficiary", "beneficiary_answer")

\* the handlers of beneficiary_agent.py and provider_agent.py keep the
\* contract on every path
ModuleHandlersKeepContract ==
  /\ dop = "beneficiary_agent_node" =>
       ~dret.raised /\ HandlerContract(dret.update, "beneficiary", "beneficiary_answer")
  /\ dop = "provider_agent_node" =>
       ~dret.raised /\ HandlerContract(dret.update, "provider", "provider_candidates")

\* C9 (Document-QA empty context): on a state whose pdf_text is absent or
\* empty the Document-QA handler makes no oracle call, writes the no-data
\* marker into its slot and sets final_answer to the fixed explanatory
\* string.  Stated of the Document-QA node of the graph.
C9_EmptyContext ==
  (node = "beneficiary_agent" /\ ~Truthy(Get(prev, "pdf_text", ""))) =>
    /\ calls = <<>>
    /\ ~ret.raised
    /\ ret.update["beneficiary_answer"] = NO_PDF_MARKER
    /\ Get(ret.update, "final_answer", None) = NO_PDF_ANSWER

\* the handler of beneficiary_agent.py on an empty or absent context
ModuleHandlerEmptyContext ==
  (dop = "beneficiary_agent_node" /\ ~Truthy(Get(dstate, "pdf_text", ""))) =>
    /\ dcalls = <<>>
    /\ ~dret.raised
    /\ dret.update["beneficiary_answer"] = NO_PDF_MARKER
    /\ Get(dret.update, "final_answer", None) = NO_PDF_ANSWER

\* the text that names one candidate: its name, "Unknown" without one, and
\* its specialty in brackets when it has one
Named(p) ==
  (IF "name" \in DOMAIN p THEN p.name ELSE "Unknown")
    \o (IF "specialty" \in DOMAIN p THEN " (" \o p.specialty \o ")" ELSE "")

\* the first k candidates of c named in list order, comma-joined
RECURSIVE Listed(_, _)
Listed(c, k) ==
  IF k = 0 THEN ""
  ELSE IF k = 1 THEN Named(c[1])
  ELSE Listed(c, k - 1) \o ", " \o Named(c[k])

Min(a, b) == IF a < b THEN a ELSE b

EndsWith(s, suffix) ==
  Len(s) >= Len(suffix) /\ SubSeq(s, Len(s) - Len(suffix) + 1, Len(s)) = suffix

\* C10 (Candidate-Lookup truncation): the summary of n candidates lists
\* the first min(n, 5) in list order, comma-joined; it carries "and (n-5)
\* more" exactly when n > 5 (6 candidates: "and 1 more."); it is the
\* "none found" string exactly when n = 0.
C10_Truncation ==
  dop = "_make_final_answer_from_providers" =>
    LET c == dstate.candidates
        n == Len(c)
        text == dret.text
        listing == "Found " \o ToString(n) \o " providers: " \o Listed(c, Min(n, 5))
    IN /\ n = 0 <=> text = "No providers found."
       /\ (n > 0 /\ n <= 5) => text = listing \o "."
       /\ n > 5 => text = listing \o " and " \o ToString(n - 5) \o " more."
       /\ n = 6 => EndsWith(text, " and 1 more.")
       /\ n <= 5 => ~EndsWith(text, " more.")

\* C10 witness: six candidates have been summarised
C10_Witness ==
  /\ dop = "_make_final_answer_from_providers"
  /\ Len(dstate.candidates) = 6
  /\ dstate.candidates[1] # dstate.candidates[2]

\* the document context a state holds (None: none)
ContextOf(st) == Get(st, "pdf_text", None)

\* C11 (No-overwrite of supplied context): when the state a run is seeded
\* with holds a document context X -- any string, the empty one included --
\* the context the state holds after the init step is X, whether or not a
\* default PDF exists.
C11_NoOverwrite ==
  (dop = "init_pdf_node" /\ ContextOf(dstate) # None) =>
    ContextOf(ApplyWrites(dstate, dret.update)) = ContextOf(dstate)

\* the same of the init step of orchestrator.py
OrchestratorInitKeepsContext ==
  (dop = "orchestrator.init_pdf_node" /\ ContextOf(dstate) # None) =>
    ContextOf(ApplyWrites(dstate, dret.update)) = ContextOf(dstate)

\* a non-empty supplied context is kept by init_pdf.py's init step
NonEmptyContextKept ==
  (dop = "init_pdf_node" /\ Truthy(ContextOf(dstate))) =>
    ContextOf(ApplyWrites(dstate, dret.update)) = ContextOf(dstate)

\* s holds sub as a substring
Contains(s, sub) ==
  \E i \in 0..(Len(s) - Len(sub)) : SubSeq(s, i + 1, i + Len(sub)) = sub

\* the error description offer_agent_node produces when the API call fails
ApiErrors == {"API error: " \o api.text : api \in {a \in ApiOutcomes : ~a.ok}}

\* the offer handler of the current run failed on its API call: the turn
\* it appended, the last one the next stage receives, is its error turn
OfferFailed ==
  /\ "offer_agent" \in {trace[i] : i \in 1..Len(trace)}
  /\ Last(Log(IF node = "offer_agent" THEN state ELSE prev)).content \in ApiErrors

\* C12 (Handler failure surfaces as content): when the offer handler's API
\* call fails no error escapes the handler, the run goes on to the
\* Finalizer, and the final_answer of the completed run carries the error
\* description the handler produced.
C12_FailureSurfaces ==
  OfferFailed =>
    /\ pc \in {"finalize", "idle"}
    /\ RunCompleted => Contains(state["final_answer"], Last(Log(prev)).content)

\* the failure path of provider_agent_node: generation raised, nothing
\* escapes, and the returned final_answer is the error description
ProviderFailureSurfaces ==
  (dop = "provider_agent_node" /\ "provider_candidates" \notin DOMAIN dret.update) =>
    /\ ~dret.raised
    /\ dret.update["final_answer"] = "Provider generation failed: boom"
    /\ dret.update["messages"][1].content = dret.update["final_answer"]

\* the handler nodes of the graph and the result slot each owns
Handlers == {"offer_agent", "beneficiary_agent"}
SlotOf == [offer_agent |-> "offer_summary", beneficiary_agent |-> "beneficiary_answer"]
ResultSlots == {SlotOf[h] : h \in Handlers}

\* the nodes the current run has executed
Executed == {trace[i] : i \in 1..Len(trace)}

\* the result slots the node that ran last wrote
SlotsWritten == DOMAIN ret.update \cap ResultSlots

\* C13 (Exactly-one-slot): a handler that ran and returned wrote exactly
\* one result slot, its own; no other stage writes a result slot; and the
\* handler a completed run executed is the one its route selects, none when
\* the route is "finalize".
C13_ExactlyOneSlot ==
  /\ (node \in Handlers /\ ~ret.raised) => SlotsWritten = {SlotOf[node]}
  /\ (node \in {"init_pdf", "orchestrator", "finalize"} /\ ~ret.raised) =>
       SlotsWritten = {}
  /\ RunCompleted =>
       Executed \cap Handlers =
         (IF state["route"] = "finalize" THEN {} ELSE {PathMap[state["route"]]})

\* what does hold: a handler writes no slot but its own, and at most one
AtMostOwnSlot ==
  /\ (node \in Handlers /\ ~ret.raised) => SlotsWritten \subseteq {SlotOf[node]}
  /\ (node \in {"init_pdf", "orchestrator", "finalize"} /\ ~ret.raised) =>
       SlotsWritten = {}
  /\ RunCompleted =>
       Executed \cap Handlers =
         (IF state["route"] = "finalize" THEN {} ELSE {PathMap[state["route"]]})

\* C14 (Every run reaches the Finalizer): whatever the classifier and the
\* handler do, a run that has started eventually executes the finalize node.
C14_ReachesFinalizer ==
  \A r \in 1..MaxRuns :
    (runs = r /\ pc = "init_pdf") ~> (runs = r /\ node = "finalize")

\* the part of C14 about the shape of the graph: no stage is executed more
\* than once in a run
NoStageTwice ==
  \A i, j \in 1..Len(trace) : i # j => trace[i] # trace[j]

\* C15 (The classifier call never raises): when the model behind
\* call_llm_json fails, the call returns a dict and no error reaches the
\* node that made it.  Stated of call_llm_json of orchestrator.py, as the
\* nodes of the graph call it.
C15_CallNeverRaises ==
  (node \in {"orchestrator", "offer_agent", "beneficiary_agent"} /\ oracle.raises) =>
    ~(ret.raised /\ ret.exc = "LLMError")

\* call_llm_json of llm_utils.py, as the Document-QA handler of
\* beneficiary_agent.py calls it: whatever the model does, the handler gets
\* a dict with a "summary" string, the placeholder on failure
LlmUtilsNeverRaises ==
  (dop = "beneficiary_agent_node" /\ dcalls # <<>>) =>
    /\ ~dret.raised
    /\ DOMAIN dret.update["beneficiary_answer"] = {"summary"}
    /\ \A llm \in {NoLLM, LLMFail} :
         Len(llm_utils_call_llm_json(BENEFICIARY_SYS, dcalls[1].user, llm).summary) > 0

\* a is a prefix of b
IsPrefix(a, b) == Len(a) <= Len(b) /\ SubSeq(b, 1, Len(a)) = a

\* C16 (Append-only log): across the seeding of a run and every stage that
\* ran (init, classify, handler, finalize) the log before is a prefix of
\* the log after, a stage adds at most one turn, and no turn occurs twice.
C16_AppendOnly ==
  node # "none" =>
    /\ IsPrefix(Log(prev), Log(state))
    /\ Len(Log(state)) <= Len(Log(prev)) + 1
    /\ \A i, j \in 1..Len(Log(state)) :
         i # j => Log(state)[i].id # Log(state)[j].id

\* C16 witness: the Finalizer of a second run on the thread has returned
\* the whole log it received and one more turn
C16_Witness ==
  /\ node = "finalize"
  /\ runs = 2
  /\ Len(Log(prev)) >= 4
  /\ Len(ret.update["messages"]) = Len(Log(prev)) + 1
  /\ Len(Log(state)) = Len(Log(prev)) + 1

\* C17 (Runs are independent): a run starts from a fresh state built from
\* its own seed turn only.  Stated of what a completed run leaves: the state
\* a run starts on holds no final_answer and no assistant turn (and so no
\* result of an earlier run's Finalizer).
C17_RunsIndependent ==
  node = "START" =>
    /\ "final_answer" \notin DOMAIN state
    /\ TurnsOf(Log(state), "ai") = {}

\* the timestamps of AgentState, and the keys each handler owns
Timestamps == {"offer_last_updated", "beneficiary_last_updated"}
OwnedBy == [offer_agent |-> {"offer_summary", "offer_last_updated"},
            beneficiary_agent |-> {"beneficiary_answer", "beneficiary_last_updated"}]

\* the slot keys whose value the stage that ran last changed, set or removed
Changed ==
  {k \in SlotKeys : Under(state, {k}) # Under(prev, {k})}

\* C18 (Per-handler timestamps): across the seeding of a run and every stage
\* no timestamp decreases, and a result slot or timestamp changes only in
\* the execution of the handler that owns it: a handler, the router and the
\* Finalizer leave every other handler's slot and timestamp as they were.
C18_Timestamps ==
  node # "none" =>
    /\ \A k \in Timestamps : Get(state, k, 0) >= Get(prev, k, 0)
    /\ Changed # {} => (node \in Handlers /\ Changed \subseteq OwnedBy[node])

\* C18 witness: on a thread that holds the other handler's result, the
\* offer handler has written its own slot with a later timestamp
C18_Witness ==
  /\ node = "offer_agent"
  /\ "beneficiary_last_updated" \in DOMAIN prev
  /\ "offer_last_updated" \in Changed
  /\ state["offer_last_updated"] > state["beneficiary_last_updated"]

\* the handlers of beneficiary_agent.py and provider_agent.py return no
\* slot or timestamp but their own, the timestamp being the clock's value
ModuleHandlersOwnKeys ==
  /\ dop = "beneficiary_agent_node" =>
       /\ DOMAIN dret.update = {"beneficiary_answer", "beneficiary_last_updated",
                                "final_answer", "messages"}
       /\ dret.update["beneficiary_last_updated"] = now
  /\ dop = "provider_agent_node" =>
       /\ DOMAIN dret.update \subseteq {"provider_candidates", "provider_last_updated",
                                         "final_answer", "messages"}
       /\ "provider_last_updated" \in DOMAIN dret.update =>
            dret.update["provider_last_updated"] = now

\* the labels the docstring of route_simple names
DocstringLabels == {"provider", "beneficiary", "finalize"}

\* C19 (route_simple): for every message list and every classifier outcome
\* the probe answers, with a route of the label set its docstring names;
\* it answers "finalize" when orchestrator_node raises.
C19_RouteSimpleLabels ==
  dop = "route_simple" =>
    /\ dret.route \in DocstringLabels
    /\ (\A llm \in ClassifierOutcomes : orchestrator_node(dstate, llm).raised) =>
         dret.route = "finalize"

\* what does hold of the probe: it answers "finalize" whenever
\* orchestrator_node raises, which it does on every non-empty list of dicts
RouteSimpleOnRaise ==
  dop = "route_simple" =>
    /\ (\A llm \in ClassifierOutcomes : orchestrator_node(dstate, llm).raised) =>
         dret.route = "finalize"
    /\ Log(dstate) # <<>> => (dret.route = "finalize" /\ dcalls = <<>>)

\* how often the current run has executed a node
Count(n) == Cardinality({i \in 1..Len(trace) : trace[i] = n})

\* the order of the stages of the current run: the Finalizer at most once,
\* at most one handler, the handler right after the classification that
\* selected it and before the Finalizer, none on route "finalize"
StageOrder ==
  /\ Count("finalize") <= 1
  /\ Cardinality({i \in 1..Len(trace) : trace[i] \in Handlers}) <= 1
  /\ \A i \in 1..Len(trace) :
       trace[i] \in Handlers =>
         /\ i > 1 /\ trace[i - 1] = "orchestrator"
         /\ PathMap[state["route"]] = trace[i]
         /\ \A j \in 1..Len(trace) : trace[j] = "finalize" => j > i
  /\ ("orchestrator" \in Executed /\ pc # "aborted" /\ state["route"] = "finalize") =>
       Executed \cap Handlers = {}

\* C20 (Stage ordering): in every run the Finalizer executes exactly once;
\* a handler executes after the classification that set route and before
\* the Finalizer, at most one per run, and none when route is "finalize".
C20_StageOrdering ==
  /\ StageOrder
  /\ (Idle /\ runs > 0) => Count("finalize") = 1

\* the turn the Finalizer returned as its new one
FinalizerTurn == ret.update["messages"][Len(ret.update["messages"])]

\* C21 (Finalizer turn): after the Finalizer has run the last turn of the
\* log is an assistant turn whose text is final_answer, the turn the
\* Finalizer returned carries a tag naming the finalizer as its origin, and
\* the reply projected from the last turn is final_answer.
C21_FinalizerTurn ==
  node = "finalize" =>
    /\ Last(Log(state)).type = "ai"
    /\ Last(Log(state)).content = state["final_answer"]
    /\ final_reply(state) = state["final_answer"]
    /\ \E k \in DOMAIN FinalizerTurn \ {"content"} : FinalizerTurn[k] = "finalizer"

\* what does hold: the last turn is the Finalizer's assistant turn, its
\* text is final_answer, and so is the reply projected from it
FinalizerTurnText ==
  node = "finalize" =>
    /\ Last(Log(state)).type = "ai"
    /\ Last(Log(state)).content = state["final_answer"]
    /\ final_reply(state) = state["final_answer"]
    /\ DOMAIN FinalizerTurn = {"py", "role", "content"}

\* the textual fields of a reply in the order of preference
Fields == <<"summary", "content", "text", "answer">>

\* the fields a reply has: the keys of a dict, the content of an object
FieldsOf(resp) ==
  IF resp.py = "dict" THEN resp.value
  ELSE IF resp.py = "object" /\ resp.content # None THEN [content |-> resp.content]
  ELSE EmptyDict

\* the first non-empty field of a reply in the order of preference, None
\* when it has none
FirstNonEmpty(resp) ==
  LET f == FieldsOf(resp)
      filled == {i \in 1..Len(Fields) : Fields[i] \in DOMAIN f /\ f[Fields[i]] # ""}
  IN IF filled = {} THEN None
     ELSE f[Fields[CHOOSE i \in filled : \A j \in filled : i <= j]]

\* str(resp) of the whole reply
Coercion(resp) ==
  IF resp.py = "None" THEN "None"
  ELSE IF resp.py = "dict" THEN DictStr(resp.value)
  ELSE IF resp.py = "object" THEN "<object>"
  ELSE resp.value

\* the final_answer made of a display string is never empty: the "no
\* answer produced" text stands in for an empty extraction
FinalAnswerNeverEmpty ==
  /\ dop = "_extract_text_from_llm_response" =>
       dret.final_answer = (IF dret.text = "" THEN NO_ANSWER ELSE dret.text)
  /\ dop = "beneficiary_agent_node" => dret.update["final_answer"] # ""

HeadingOf == [offer_agent |-> OFFER_HEADING, beneficiary_agent |-> BENEFICIARY_HEADING]
SlotText(h, st) ==
  IF h = "offer_agent" THEN Str(Get(st["offer_summary"], "summary", None))
  ELSE Or(Or(Get(st["beneficiary_answer"], "summary", None),
             Get(st["beneficiary_answer"], "error", None)),
          DictStr(st["beneficiary_answer"]))

\* handler h was dispatched in the current run and produced a result: the
\* offer handler's success turn is the last turn the Finalizer received;
\* the beneficiary handler writes its slot whenever it returns
Produced(h) ==
  /\ h \in Executed
  /\ "finalize" \in Executed
  /\ h = "offer_agent" => Last(Log(prev)).content = "Offer Agent processed API data."

\* C23 (Freshness): when a handler was dispatched in a run and produced a
\* result, the final_answer of that run is made of that handler's slot as
\* this run wrote it, also when the other handler's timestamp, left by an
\* earlier run, is of the same second.
C23_Freshness ==
  node = "finalize" =>
    \A h \in Handlers :
      Produced(h) => state["final_answer"] = HeadingOf[h] \o SlotText(h, prev)

\* what does hold: the result of the run's handler is the one answered
\* unless the other slot is populated with a timestamp that beats it
\* (greater, or equal when the other is the beneficiary's)
FreshUnlessTied ==
  node = "finalize" =>
    /\ Produced("beneficiary_agent") =>
         state["final_answer"] = HeadingOf["beneficiary_agent"] \o SlotText("beneficiary_agent", prev)
    /\ (Produced("offer_agent")
          /\ Get(prev, "beneficiary_last_updated", 0) < prev["offer_last_updated"]) =>
         state["final_answer"] = HeadingOf["offer_agent"] \o SlotText("offer_agent", prev)

StartsWith(s, prefix) ==
  Len(s) >= Len(prefix) /\ SubSeq(s, 1, Len(prefix)) = prefix

\* the slot under key is populated: present and not empty
Populated(st, key) == key \in DOMAIN st /\ DOMAIN st[key] # {}

\* C24 (Timestamp policy of finalize_node): the reply is made of the
\* beneficiary slot exactly when that slot is populated and
\* beneficiary_last_updated >= offer_last_updated (an absent timestamp
\* counting as 0); of the offer slot exactly when that slot is populated and
\* offer_last_updated > beneficiary_last_updated; it is the apology in
\* every other case.  A tie goes to the beneficiary slot.
C24_TimestampPolicy ==
  dop = "finalize_node" =>
    LET bt == Get(dstate, "beneficiary_last_updated", 0)
        ot == Get(dstate, "offer_last_updated", 0)
        fromBeneficiary == Populated(dstate, "beneficiary_answer") /\ bt >= ot
        fromOffer == Populated(dstate, "offer_summary") /\ ot > bt
        answer == dret.update["final_answer"]
    IN /\ fromBeneficiary <=> StartsWith(answer, BENEFICIARY_HEADING)
       /\ fromBeneficiary =>
            answer = BENEFICIARY_HEADING \o SlotText("beneficiary_agent", dstate)
       /\ (fromOffer /\ ~fromBeneficiary) <=> StartsWith(answer, OFFER_HEADING)
       /\ (fromOffer /\ ~fromBeneficiary) =>
            answer = OFFER_HEADING \o SlotText("offer_agent", dstate)
       /\ (~fromBeneficiary /\ ~fromOffer) <=> answer = APOLOGY
       /\ Last(dret.update["messages"]).content = answer

\* C24 witness: both slots populated with equal timestamps, and the reply
\* is made of the beneficiary slot
C24_Witness ==
  /\ dop = "finalize_node"
  /\ Populated(dstate, "offer_summary")
  /\ Populated(dstate, "beneficiary_answer")
  /\ "offer_last_updated" \in DOMAIN dstate
  /\ Get(dstate, "beneficiary_last_updated", 0) = dstate["offer_last_updated"]
  /\ StartsWith(dret.update["final_answer"], BENEFICIARY_HEADING)

\* a /chat request was answered
Chatted == response.op = "chat"

\* the request was rejected before the run was started, the document store
\* left as it was
RejectedWith(status) ==
  /\ response.status = status
  /\ ~response.started
  /\ DOC_STORE = response.before

\* the message of the request is blank
Blank == response.message = "" \/ Strip(response.message) = ""

\* what C25 says of blank messages, of the statuses, and of uploaded ids
ChatFaults ==
  /\ response.status \in {200, 400, 404}
  /\ response.status = 200 => response.started
  /\ Blank => RejectedWith(400)
  /\ response.doc_id \in DOMAIN response.before => response.status # 404

\* C25 as stated: a blank message is rejected (400) and a doc_id absent
\* from the document store is rejected (404), both before the run is
\* started and with the store unchanged; an uploaded doc_id is never
\* rejected as not found; no other fault is visible.
C25_AbsentDocRejected ==
  Chatted =>
    /\ ChatFaults
    /\ (~Blank /\ response.doc_id # None
          /\ response.doc_id \notin DOMAIN response.before) => RejectedWith(404)

\* C25 amended: as stated, of a non-empty doc_id; a request whose doc_id is
\* empty is treated as one without a doc_id: it is not rejected and the run
\* is started without a document.
C25_ChatFaults ==
  Chatted =>
    /\ ChatFaults
    /\ (~Blank /\ response.doc_id \notin {None, ""}
          /\ response.doc_id \notin DOMAIN response.before) => RejectedWith(404)
    /\ (~Blank /\ response.doc_id \in {None, ""}) => response.status = 200

\* C25 witness: a request naming an upload whose text extraction failed
\* has been accepted and answered
C25_Witness ==
  /\ Chatted
  /\ response.doc_id \in DOMAIN DOC_STORE
  /\ DOC_STORE[response.doc_id].text = ""
  /\ DOC_STORE[response.doc_id].pages = 0
  /\ response.status = 200
  /\ response.reply = "reply"

\* a request naming an unknown document has been rejected
UnknownDocRejected ==
  /\ Chatted
  /\ response.doc_id = "doc-0"
  /\ DOC_STORE # EmptyDict
  /\ RejectedWith(404)

=============================================================================
